---- MODULE Spec2Model ----
(***************************************************************************)
(* A model of the dynamic query construction layer of jobly:               *)
(*   helpers/sql.js   sqlForPartialUpdate                                  *)
(*   models/job.js    Job.buildFindAllSQLWithQueryString, Job.findAll,     *)
(*                    Job.create / get / update / remove                   *)
(*   models/company.js Company.buildFindAllSQLWithQueryString,             *)
(*                    Company.findAll, Company.create / update / remove    *)
(*                                                                         *)
(* JavaScript values are tagged records, so that values of different       *)
(* types can sit in one list.  A JavaScript string that the code only      *)
(* passes around (a title, a name, a search text) is a sequence of         *)
(* one-character strings, so that ILIKE can be computed; a string the code *)
(* builds (an SQL statement) is a sequence of pieces whose concatenation   *)
(* is the JavaScript string.  A plain object is the sequence of its own    *)
(* enumerable properties in the order Object.keys / for-in visit them      *)
(* (insertion order, for the non-numeric keys used here).                  *)
(***************************************************************************)
EXTENDS Integers, Sequences, FiniteSets, TLC

VARIABLES jobs, companies, nextId, creating, last

vars == <<jobs, companies, nextId, creating, last>>

-----------------------------------------------------------------------------
(* Bounds of the model *)

\* the largest number of own properties of an object passed to a builder
MaxKeys == 3

-----------------------------------------------------------------------------
(* JavaScript values *)

Str(s) == [str |-> s]
Num(n) == [num |-> n]
Bool(b) == [bool |-> b]
Null == [null |-> TRUE]
Undefined == [undefined |-> TRUE]
\* a built-in function object, e.g. Object.prototype.constructor
Fn(name) == [fn |-> name]
\* a plain object: its own enumerable properties, in enumeration order
Obj(entries) == [obj |-> entries]

IsStr(v) == "str" \in DOMAIN v
IsNum(v) == "num" \in DOMAIN v
IsBool(v) == "bool" \in DOMAIN v
IsFn(v) == "fn" \in DOMAIN v
IsObj(v) == "obj" \in DOMAIN v

\* ToBoolean(v), as the || operator applies it
Truthy(v) ==
  IF IsStr(v) THEN Len(v.str) > 0
  ELSE IF IsNum(v) THEN v.num # 0
  ELSE IF IsBool(v) THEN v.bool
  ELSE IF IsFn(v) \/ IsObj(v) THEN TRUE
  ELSE FALSE

\* Object.keys(o)
ObjectKeys(o) == [i \in 1..Len(o.obj) |-> o.obj[i].key]

\* Object.values(o)
ObjectValues(o) == [i \in 1..Len(o.obj) |-> o.obj[i].val]

\* the keys a for-in loop visits: none for undefined
ForInKeys(o) == IF IsObj(o) THEN ObjectKeys(o) ELSE <<>>

\* o[key] for an own property of o
OwnProp(o, key) ==
  LET i == CHOOSE j \in 1..Len(o.obj) : o.obj[j].key = key IN o.obj[i].val

HasOwn(o, key) == IsObj(o) /\ \E j \in 1..Len(o.obj) : o.obj[j].key = key

\* the properties every plain object inherits from Object.prototype
\* (those the model's keys can name)
ObjectPrototype ==
  [constructor |-> Fn("Object"), toString |-> Fn("toString")]

\* o[key]: an own property, else an inherited one, else undefined
GetProp(o, key) ==
  IF HasOwn(o, key) THEN OwnProp(o, key)
  ELSE IF key \in DOMAIN ObjectPrototype THEN ObjectPrototype[key]
  ELSE Undefined

\* the pieces of `${v}` for the values a column name can be: a key (a
\* TLA+ string), a translation (Str of a TLA+ string) or a built-in function
TemplateString(v) ==
  IF IsFn(v) THEN "function " \o v.fn \o "() { [native code] }"
  ELSE v.str

\* `$${n}`
Placeholder(n) == "$" \o ToString(n)

\* the largest placeholder index a builder can reach with MaxKeys keys
MaxPlaceholder == MaxKeys + 2

IsPlaceholder(piece) == \E n \in 1..MaxPlaceholder : piece = Placeholder(n)


\* arr.join(sep), for an array of strings given as sequences of pieces
RECURSIVE Join(_, _)
Join(arr, sep) ==
  IF Len(arr) = 0 THEN <<>>
  ELSE IF Len(arr) = 1 THEN arr[1]
  ELSE arr[1] \o <<sep>> \o Join(Tail(arr), sep)

\* str.split(sep), on pieces
RECURSIVE Split(_, _)
Split(pieces, sep) ==
  IF \A p \in 1..Len(pieces) : pieces[p] # sep THEN <<pieces>>
  ELSE LET p == CHOOSE q \in 1..Len(pieces) :
                  pieces[q] = sep /\ \A r \in 1..(q - 1) : pieces[r] # sep
       IN <<SubSeq(pieces, 1, p - 1)>>
            \o Split(SubSeq(pieces, p + 1, Len(pieces)), sep)

\* the outcome of a call
Return(v) == [threw |-> FALSE, value |-> v]
Throw(name, message) ==
  [threw |-> TRUE, error |-> [name |-> name, message |-> message]]

-----------------------------------------------------------------------------
(* helpers/sql.js *)

\* a slip: the placeholder numbered from the 0-based index
ColClause_ZeroBased(jsToSql, colName, idx) ==
  LET translated == GetProp(jsToSql, colName)
      column == IF Truthy(translated) THEN TemplateString(translated)
                ELSE colName
  IN <<"\"", column, "\"=", Placeholder(idx)>>

\* `"${jsToSql[colName] || colName}"=$${idx + 1}`
ColClause(jsToSql, colName, idx) ==
  LET translated == GetProp(jsToSql, colName)
      column == IF Truthy(translated) THEN TemplateString(translated)
                ELSE colName
  IN <<"\"", column, "\"=", Placeholder(idx + 1)>>

\* a slip: the check for no data is missing
sqlForPartialUpdate_NoCheck(dataToUpdate, jsToSql) ==
  LET keys == ObjectKeys(dataToUpdate)
      cols == [i \in 1..Len(keys) |-> ColClause(jsToSql, keys[i], i - 1)]
  IN Return([setCols |-> Join(cols, ", "),
             values |-> ObjectValues(dataToUpdate)])

\* a slip: the properties whose value is null are left out
sqlForPartialUpdate_SkipsNull(dataToUpdate, jsToSql) ==
  LET kept == Obj(SelectSeq(dataToUpdate.obj, LAMBDA e : e.val # Null))
      keys == ObjectKeys(kept)
  IN
  IF Len(keys) = 0 THEN Throw("BadRequestError", "No data")
  ELSE
    LET cols == [i \in 1..Len(keys) |-> ColClause(jsToSql, keys[i], i - 1)]
    IN Return([setCols |-> Join(cols, ", "),
               values |-> ObjectValues(kept)])

sqlForPartialUpdate(dataToUpdate, jsToSql) ==
  LET keys == ObjectKeys(dataToUpdate) IN
  IF Len(keys) = 0 THEN Throw("BadRequestError", "No data")
  ELSE
    LET cols == [i \in 1..Len(keys) |-> ColClause(jsToSql, keys[i], i - 1)]
    IN Return([setCols |-> Join(cols, ", "),
               values |-> ObjectValues(dataToUpdate)])


-----------------------------------------------------------------------------
(* models/job.js: the filter builder *)

JobBaseSql ==
  "SELECT id,\n      title, \n      salary, \n      equity,\n      company_handle AS \"companyHandle\"\n      FROM jobs"

\* a slip: the WHERE is written before the loop
JobLoopInit_OpensWhere ==
  [sql |-> <<JobBaseSql, " WHERE ">>, startedSql |-> TRUE, paramCount |-> 1,
   values |-> <<>>]

\* the state of the loop: sql, startedSql, paramCount, values
JobLoopInit ==
  [sql |-> <<JobBaseSql>>, startedSql |-> FALSE, paramCount |-> 1,
   values |-> <<>>]

\* a slip: paramCount is never incremented
JobLoopBody_ReusesPlaceholder(queryString, key, st) ==
  LET sql1 == IF st.startedSql THEN Append(st.sql, " AND ")
              ELSE Append(st.sql, " WHERE ")
  IN
  IF key = "hasEquity" THEN
    [st EXCEPT !.sql = Append(sql1, " equity > 0"), !.startedSql = TRUE]
  ELSE
    LET sql2 ==
          IF key = "title" THEN
            sql1 \o <<" name ILIKE '%' || ", Placeholder(st.paramCount),
                      " || '%'">>
          ELSE IF key = "minSalary" THEN
            sql1 \o <<" salary >= ", Placeholder(st.paramCount)>>
          ELSE sql1
    IN [sql |-> sql2, startedSql |-> TRUE,
        paramCount |-> st.paramCount,
        values |-> Append(st.values, OwnProp(queryString, key))]

\* a slip: the salary threshold is written into the statement
JobLoopBody_InlinesValue(queryString, key, st) ==
  LET sql1 == IF st.startedSql THEN Append(st.sql, " AND ")
              ELSE Append(st.sql, " WHERE ")
  IN
  IF key = "hasEquity" THEN
    [st EXCEPT !.sql = Append(sql1, " equity > 0"), !.startedSql = TRUE]
  ELSE IF key = "minSalary" THEN
    [st EXCEPT !.sql = sql1 \o <<" salary >= ",
                                 ToString(OwnProp(queryString, key).num)>>,
               !.startedSql = TRUE]
  ELSE
    LET sql2 ==
          IF key = "title" THEN
            sql1 \o <<" name ILIKE '%' || ", Placeholder(st.paramCount),
                      " || '%'">>
          ELSE sql1
    IN [sql |-> sql2, startedSql |-> TRUE,
        paramCount |-> st.paramCount + 1,
        values |-> Append(st.values, OwnProp(queryString, key))]

\* a slip: the `continue` of the hasEquity branch is missing
JobLoopBody_EquityFallsThrough(queryString, key, st) ==
  LET sql1 == IF st.startedSql THEN Append(st.sql, " AND ")
              ELSE Append(st.sql, " WHERE ")
      sql2 ==
        IF key = "title" THEN
          sql1 \o <<" name ILIKE '%' || ", Placeholder(st.paramCount),
                    " || '%'">>
        ELSE IF key = "minSalary" THEN
          sql1 \o <<" salary >= ", Placeholder(st.paramCount)>>
        ELSE IF key = "hasEquity" THEN Append(sql1, " equity > 0")
        ELSE sql1
  IN [sql |-> sql2, startedSql |-> TRUE,
      paramCount |-> st.paramCount + 1,
      values |-> Append(st.values, OwnProp(queryString, key))]

\* one pass through the body of the for-in loop, for `key`
\* a slip: every pass opens a WHERE
JobLoopBody_AlwaysWhere(queryString, key, st) ==
  LET sql1 == Append(st.sql, " WHERE ")
  IN
  IF key = "hasEquity" THEN
    \* `continue`: no value is added and paramCount is not incremented
    [st EXCEPT !.sql = Append(sql1, " equity > 0"), !.startedSql = TRUE]
  ELSE
    LET sql2 ==
          IF key = "title" THEN
            sql1 \o <<" name ILIKE '%' || ", Placeholder(st.paramCount),
                      " || '%'">>
          ELSE IF key = "minSalary" THEN
            sql1 \o <<" salary >= ", Placeholder(st.paramCount)>>
          ELSE sql1
    IN [sql |-> sql2, startedSql |-> TRUE,
        paramCount |-> st.paramCount + 1,
        values |-> Append(st.values, OwnProp(queryString, key))]

JobLoopBody(queryString, key, st) ==
  LET sql1 == IF st.startedSql THEN Append(st.sql, " AND ")
              ELSE Append(st.sql, " WHERE ")
  IN
  IF key = "hasEquity" THEN
    \* `continue`: no value is added and paramCount is not incremented
    [st EXCEPT !.sql = Append(sql1, " equity > 0"), !.startedSql = TRUE]
  ELSE
    LET sql2 ==
          IF key = "title" THEN
            sql1 \o <<" name ILIKE '%' || ", Placeholder(st.paramCount),
                      " || '%'">>
          ELSE IF key = "minSalary" THEN
            sql1 \o <<" salary >= ", Placeholder(st.paramCount)>>
          ELSE sql1
    IN [sql |-> sql2, startedSql |-> TRUE,
        paramCount |-> st.paramCount + 1,
        values |-> Append(st.values, OwnProp(queryString, key))]

RECURSIVE JobLoop(_, _, _)
JobLoop(queryString, keys, st) ==
  IF Len(keys) = 0 THEN st
  ELSE JobLoop(queryString, Tail(keys),
               JobLoopBody(queryString, Head(keys), st))

\* Job.buildFindAllSQLWithQueryString
JobBuildFindAllSQL(queryString) ==
  LET st == JobLoop(queryString, ForInKeys(queryString), JobLoopInit)
  IN [sql |-> Append(st.sql, " ORDER BY title"), values |-> st.values]

-----------------------------------------------------------------------------
(* models/company.js: the filter builder *)

CompanyBaseSql ==
  "SELECT handle,\n      name, \n      description, \n      num_employees AS \"numEmployees\",\n      logo_url AS \"logoUrl\"\n      FROM companies"

CompanyLoopInit ==
  [sql |-> <<CompanyBaseSql>>, startedSql |-> FALSE, paramCount |-> 1,
   values |-> <<>>]

\* a slip: the two thresholds are taken for each other
CompanyLoopBody_SwapsBounds(queryString, key, st) ==
  LET sql1 == IF st.startedSql THEN Append(st.sql, " AND ")
              ELSE Append(st.sql, " WHERE ")
      sql2 ==
        IF key = "name" THEN
          sql1 \o <<" name ILIKE '%' || ", Placeholder(st.paramCount),
                    " || '%'">>
        ELSE IF key = "minEmployees" THEN
          sql1 \o <<" num_employees <= ", Placeholder(st.paramCount)>>
        ELSE IF key = "maxEmployees" THEN
          sql1 \o <<" num_employees >= ", Placeholder(st.paramCount)>>
        ELSE sql1
  IN [sql |-> sql2, startedSql |-> TRUE,
      paramCount |-> st.paramCount + 1,
      values |-> Append(st.values, OwnProp(queryString, key))]

CompanyLoopBody(queryString, key, st) ==
  LET sql1 == IF st.startedSql THEN Append(st.sql, " AND ")
              ELSE Append(st.sql, " WHERE ")
      sql2 ==
        IF key = "name" THEN
          sql1 \o <<" name ILIKE '%' || ", Placeholder(st.paramCount),
                    " || '%'">>
        ELSE IF key = "minEmployees" THEN
          sql1 \o <<" num_employees >= ", Placeholder(st.paramCount)>>
        ELSE IF key = "maxEmployees" THEN
          sql1 \o <<" num_employees <= ", Placeholder(st.paramCount)>>
        ELSE sql1
  IN [sql |-> sql2, startedSql |-> TRUE,
      paramCount |-> st.paramCount + 1,
      values |-> Append(st.values, OwnProp(queryString, key))]

RECURSIVE CompanyLoop(_, _, _)
CompanyLoop(queryString, keys, st) ==
  IF Len(keys) = 0 THEN st
  ELSE CompanyLoop(queryString, Tail(keys),
                   CompanyLoopBody(queryString, Head(keys), st))

\* Company.buildFindAllSQLWithQueryString
CompanyBuildFindAllSQL(queryString) ==
  LET st == CompanyLoop(queryString, ForInKeys(queryString), CompanyLoopInit)
  IN [sql |-> Append(st.sql, " ORDER BY name"), values |-> st.values]

-----------------------------------------------------------------------------
(* The inputs the calls are made with *)

\* the sequences of at most n distinct elements of K
KeySeqs(K, n) ==
  {ks \in UNION {[1..m -> K] : m \in 0..n} :
     \A i, j \in DOMAIN ks : ks[i] = ks[j] => i = j}

\* the plain objects with at most n own properties, keys from K, the value
\* of key k from V[k]
Objects(K, V, n) ==
  UNION {
    {Obj([i \in DOMAIN ks |-> [key |-> ks[i], val |-> vs[i]]]) :
       vs \in {f \in [DOMAIN ks -> UNION {V[k] : k \in K}] :
                 \A i \in DOMAIN ks : f[i] \in V[ks[i]]}} :
    ks \in KeySeqs(K, n)}

\* partial updates, as the tests of sqlForPartialUpdate make them, and one
\* key that names a property every object inherits
UpdateKeys == {"firstName", "age", "constructor"}

UpdateVals ==
  [k \in UpdateKeys |-> {Str(<<"A", "l", "i", "y", "a">>), Num(32), Null}]

UpdateObjects == Objects(UpdateKeys, UpdateVals, MaxKeys)

\* translation tables: any subset of the keys, each translated to a column
\* name or to the empty string
Translation ==
  [firstName |-> "first_name", age |-> "age", constructor |-> "ctor"]

Tables ==
  LET order == <<"firstName", "age", "constructor">>
      Sub(K) == SelectSeq(order, LAMBDA k : k \in K)
  IN UNION {
       {Obj([i \in 1..Len(Sub(K)) |->
               [key |-> Sub(K)[i], val |-> Str(f[Sub(K)[i]])]]) :
          f \in {g \in [K -> {Translation[k] : k \in UpdateKeys} \cup {""}] :
                   \A k \in K : g[k] \in {Translation[k], ""}}} :
       K \in SUBSET UpdateKeys}

\* query strings for GET /jobs: the three filters and a key that is none
JobFilterKeys == {"title", "minSalary", "hasEquity", "fakeQueryField"}
JobVocabulary == {"title", "minSalary", "hasEquity"}

JobFilterVals ==
  [k \in JobFilterKeys |->
     IF k = "title" THEN {Str(<<"e", "s", "t">>), Str(<<"J">>)}
     ELSE IF k = "minSalary" THEN {Num(1), Num(2)}
     ELSE IF k = "hasEquity" THEN {Bool(TRUE), Bool(FALSE)}
     ELSE {Str(<<"b", "l", "a", "h">>), Num(2)}]

JobFilters == Objects(JobFilterKeys, JobFilterVals, MaxKeys) \cup {Undefined}

\* query strings for GET /companies
CompanyFilterKeys == {"name", "minEmployees", "maxEmployees", "fakeQueryField"}
CompanyVocabulary == {"name", "minEmployees", "maxEmployees"}

CompanyFilterVals ==
  [k \in CompanyFilterKeys |->
     IF k = "name" THEN {Str(<<"c">>), Str(<<"2">>)}
     ELSE IF k = "fakeQueryField" THEN {Str(<<"b", "l", "a", "h">>), Num(2)}
     ELSE {Num(1), Num(2)}]

CompanyFilters ==
  Objects(CompanyFilterKeys, CompanyFilterVals, MaxKeys) \cup {Undefined}

-----------------------------------------------------------------------------
(* Text, as the database compares it *)

\* the characters of the model's texts, in code point order
Alphabet ==
  <<"%", "0", "1", "2", "5", "A", "C", "D", "J", "N", "T", "\\", "_", "a",
    "b", "c", "d", "e", "h", "i", "j", "l", "n", "o", "s", "t", "w", "y">>

CharRank(c) == CHOOSE i \in 1..Len(Alphabet) : Alphabet[i] = c

UpperToLower ==
  [A |-> "a", B |-> "b", C |-> "c", D |-> "d", E |-> "e", F |-> "f",
   G |-> "g", H |-> "h", I |-> "i", J |-> "j", K |-> "k", L |-> "l",
   M |-> "m", N |-> "n", O |-> "o", P |-> "p", Q |-> "q", R |-> "r",
   S |-> "s", T |-> "t", U |-> "u", V |-> "v", W |-> "w", X |-> "x",
   Y |-> "y", Z |-> "z"]

LowerChar(c) == IF c \in DOMAIN UpperToLower THEN UpperToLower[c] ELSE c

LowerText(t) == [i \in 1..Len(t) |-> LowerChar(t[i])]

\* text LIKE pattern: % is any run of characters, _ any one character,
\* a backslash takes the next character literally
RECURSIVE LikeMatch(_, _)
LikeMatch(text, pattern) ==
  IF Len(pattern) = 0 THEN Len(text) = 0
  ELSE IF Head(pattern) = "%" THEN
    \/ LikeMatch(text, Tail(pattern))
    \/ Len(text) > 0 /\ LikeMatch(Tail(text), pattern)
  ELSE IF Head(pattern) = "_" THEN
    Len(text) > 0 /\ LikeMatch(Tail(text), Tail(pattern))
  ELSE IF Head(pattern) = "\\" /\ Len(pattern) > 1 THEN
    /\ Len(text) > 0
    /\ Head(text) = pattern[2]
    /\ LikeMatch(Tail(text), Tail(Tail(pattern)))
  ELSE
    /\ Len(text) > 0
    /\ Head(text) = Head(pattern)
    /\ LikeMatch(Tail(text), Tail(pattern))

\* text ILIKE pattern
ILikeMatch(text, pattern) == LikeMatch(LowerText(text), LowerText(pattern))

\* a sorts before b
RECURSIVE TextLess(_, _)
TextLess(a, b) ==
  IF Len(b) = 0 THEN FALSE
  ELSE IF Len(a) = 0 THEN TRUE
  ELSE IF Head(a) = Head(b) THEN TextLess(Tail(a), Tail(b))
  ELSE CharRank(Head(a)) < CharRank(Head(b))

\* the orders ORDER BY column can return the rows in: rows with equal
\* keys come in any order
Sorted(rows, column) ==
  {s \in [1..Cardinality(rows) -> rows] :
     /\ \A i, j \in DOMAIN s : s[i] = s[j] => i = j
     /\ \A i, j \in DOMAIN s :
          i < j => ~TextLess(s[j][column].str, s[i][column].str)}

-----------------------------------------------------------------------------
(* The database: the tables, and db.query on the statements of the models *)

JobColumns == {"id", "title", "salary", "equity", "company_handle"}

CompanyColumns ==
  {"handle", "name", "description", "num_employees", "logo_url"}

\* a NUMERIC column comes back as a string
NumericOut(v) == IF IsNum(v) THEN Str(<<ToString(v.num)>>) ELSE v

\* the row objects the SELECT and RETURNING lists of job.js produce
JobRowOut(r) ==
  [id |-> r.id, title |-> r.title, salary |-> r.salary,
   equity |-> NumericOut(r.equity), companyHandle |-> r.company_handle]

\* the row objects the SELECT and RETURNING lists of company.js produce
CompanyRowOut(r) ==
  [handle |-> r.handle, name |-> r.name, description |-> r.description,
   numEmployees |-> r.num_employees, logoUrl |-> r.logo_url]

DbError(code) == Throw("DatabaseError", code)

PlaceholderIndex(piece) ==
  CHOOSE n \in 1..MaxPlaceholder : piece = Placeholder(n)

\* the predicates the filter builders write: column, operator
Predicates ==
  [piece \in {" name ILIKE '%' || ", " title ILIKE '%' || ", " salary >= ",
              " num_employees >= ", " num_employees <= ", " equity > 0"} |->
     IF piece = " name ILIKE '%' || " THEN [col |-> "name", op |-> "ILIKE"]
     ELSE IF piece = " title ILIKE '%' || "
       THEN [col |-> "title", op |-> "ILIKE"]
     ELSE IF piece = " salary >= " THEN [col |-> "salary", op |-> ">="]
     ELSE IF piece = " num_employees >= "
       THEN [col |-> "num_employees", op |-> ">="]
     ELSE IF piece = " num_employees <= "
       THEN [col |-> "num_employees", op |-> "<="]
     ELSE [col |-> "equity", op |-> "> 0"]]

OrderColumn == [p \in {" ORDER BY title", " ORDER BY name"} |->
                  IF p = " ORDER BY title" THEN "title" ELSE "name"]

\* the WHERE part read from piece p on: ok is FALSE on a syntax error, such
\* as a connector with no predicate behind it
RECURSIVE ParseWhere(_, _, _)
ParseWhere(sql, p, connector) ==
  LET bad == [ok |-> FALSE, preds |-> <<>>]
      Then(pred, rest) ==
        IF rest.ok THEN [ok |-> TRUE, preds |-> <<pred>> \o rest.preds]
        ELSE bad
      At(q) == IF q <= Len(sql) THEN sql[q] ELSE ""
  IN
  IF p = Len(sql) THEN [ok |-> sql[p] \in DOMAIN OrderColumn, preds |-> <<>>]
  ELSE IF p > Len(sql) \/ sql[p] # connector THEN bad
  ELSE IF At(p + 1) \notin DOMAIN Predicates THEN bad
  ELSE
    LET pred == Predicates[sql[p + 1]] IN
    IF pred.op = "> 0" THEN
      Then([col |-> pred.col, op |-> pred.op, ph |-> 0],
           ParseWhere(sql, p + 2, " AND "))
    ELSE IF ~IsPlaceholder(At(p + 2)) THEN bad
    ELSE IF pred.op = "ILIKE" THEN
      IF At(p + 3) # " || '%'" THEN bad
      ELSE Then([col |-> pred.col, op |-> pred.op,
                 ph |-> PlaceholderIndex(sql[p + 2])],
                ParseWhere(sql, p + 4, " AND "))
    ELSE Then([col |-> pred.col, op |-> pred.op,
               ph |-> PlaceholderIndex(sql[p + 2])],
              ParseWhere(sql, p + 3, " AND "))

\* the text a bind value is sent as, when the column is text
BindText(v) == IF IsNum(v) THEN <<ToString(v.num)>> ELSE v.str

\* does the row satisfy the predicate, a comparison with NULL being no match
Satisfies(row, pred, values) ==
  LET cell == row[pred.col] IN
  IF pred.op = "> 0" THEN IsNum(cell) /\ cell.num > 0
  ELSE
    LET v == values[pred.ph] IN
    IF pred.op = "ILIKE" THEN
      /\ IsStr(cell)
      /\ IsStr(v) \/ IsNum(v)
      /\ ILikeMatch(cell.str, <<"%">> \o BindText(v) \o <<"%">>)
    ELSE IF pred.op = ">=" THEN
      IsNum(cell) /\ IsNum(v) /\ cell.num >= v.num
    ELSE IsNum(cell) /\ IsNum(v) /\ cell.num <= v.num

\* db.query(sql, values) for a statement of a filter builder on a table:
\* the error it raises, or the row sequences it can return
dbSelect(sql, values, rows, columns, rowOut) ==
  LET parsed == ParseWhere(sql, 2, " WHERE ")
      preds == parsed.preds
      used == {preds[i].ph : i \in 1..Len(preds)} \ {0}
      error ==
        IF ~parsed.ok THEN "42601 syntax error"
        ELSE IF \E i \in 1..Len(preds) : preds[i].col \notin columns
          THEN "42703 undefined column"
        ELSE IF used # 1..Len(values) THEN "08P01 wrong number of parameters"
        ELSE IF \E i \in 1..Len(preds) :
                  /\ preds[i].op \in {">=", "<="}
                  /\ ~IsNum(values[preds[i].ph])
                  /\ values[preds[i].ph] # Null
          THEN "22P02 invalid input syntax for type integer"
        ELSE ""
      matching ==
        {r \in rows : \A i \in 1..Len(preds) : Satisfies(r, preds[i], values)}
      column == OrderColumn[sql[Len(sql)]]
  IN IF error # "" THEN [error |-> error, results |-> {}]
     ELSE [error |-> "",
           results |-> {[i \in DOMAIN s |-> rowOut[s[i]]] :
                          s \in Sorted(matching, column)}]

-----------------------------------------------------------------------------
(* The database: the statements that read or change one row *)

\* the pieces in front of the key placeholder of each UPDATE
UpdateWherePieces ==
  {" \n                      WHERE id = ",
   " \n                      WHERE handle = "}

\* db.query(sql, values) for `UPDATE table SET <setCols> WHERE key = $n
\* RETURNING ...`: the error, or the table afterwards and the rows returned
dbUpdate(sql, values, rows, columns, key) ==
  LET w == CHOOSE q \in 1..Len(sql) : sql[q] \in UpdateWherePieces
      clauses == Split(SubSeq(sql, 2, w - 1), ", ")
      wellFormed ==
        \A i \in 1..Len(clauses) :
          /\ Len(clauses[i]) = 4
          /\ clauses[i][1] = "\""
          /\ clauses[i][3] = "\"="
          /\ IsPlaceholder(clauses[i][4])
      used == {PlaceholderIndex(clauses[i][4]) : i \in 1..Len(clauses)}
                \cup {PlaceholderIndex(sql[w + 1])}
      error ==
        IF ~wellFormed THEN "42601 syntax error"
        ELSE IF \E i \in 1..Len(clauses) : clauses[i][2] \notin columns
          THEN "42703 undefined column"
        ELSE IF \E i, j \in 1..Len(clauses) :
                  i # j /\ clauses[i][2] = clauses[j][2]
          THEN "42601 multiple assignments to same column"
        ELSE IF used # 1..Len(values) THEN "08P01 wrong number of parameters"
        ELSE ""
      Hit(r) == r[key] = values[PlaceholderIndex(sql[w + 1])]
      Assigned(r, c) ==
        LET i == CHOOSE j \in 1..Len(clauses) : clauses[j][2] = c
        IN values[PlaceholderIndex(clauses[i][4])]
      Updated(r) ==
        [c \in columns |->
           IF \E j \in 1..Len(clauses) : clauses[j][2] = c
           THEN Assigned(r, c) ELSE r[c]]
  IN IF error # "" THEN [error |-> error, rows |-> rows, returned |-> {}]
     ELSE [error |-> "",
           rows |-> {IF Hit(r) THEN Updated(r) ELSE r : r \in rows},
           returned |-> {Updated(r) : r \in {x \in rows : Hit(x)}}]

\* `SELECT ... WHERE key = $1`
dbSelectByKey(values, rows, key) == {r \in rows : r[key] = values[1]}

\* `DELETE FROM table WHERE key = $1 RETURNING key`
dbDelete(values, rows, key) ==
  [rows |-> {r \in rows : r[key] # values[1]},
   returned |-> {r \in rows : r[key] = values[1]}]

\* `INSERT INTO jobs (title, salary, equity, company_handle) VALUES ($1, $2,
\* $3, $4) RETURNING ...`: the id is the next value of jobs_id_seq, which is
\* used up even when the row is refused; company_handle references companies
dbInsertJob(values, rows, companyRows, id) ==
  LET row == [id |-> Num(id), title |-> values[1], salary |-> values[2],
              equity |-> values[3], company_handle |-> values[4]]
  IN IF \A c \in companyRows : c.handle # values[4]
     THEN [error |-> "23503 foreign key violation", rows |-> rows,
           returned |-> {}]
     ELSE [error |-> "", rows |-> rows \cup {row}, returned |-> {row}]

\* `INSERT INTO companies (handle, name, description, num_employees,
\* logo_url) VALUES ($1, $2, $3, $4, $5) RETURNING ...`: handle is the
\* primary key of companies
dbInsertCompany(values, rows) ==
  LET row == [handle |-> values[1], name |-> values[2],
              description |-> values[3], num_employees |-> values[4],
              logo_url |-> values[5]]
  IN IF \E c \in rows : c.handle = values[1]
     THEN [error |-> "23505 unique violation", rows |-> rows,
           returned |-> {}]
     ELSE [error |-> "", rows |-> rows \cup {row}, returned |-> {row}]

\* the jobs left once the company with this handle is deleted:
\* jobs.company_handle references companies ON DELETE CASCADE
dbCascadeJobs(values, jobRows) ==
  {j \in jobRows : j.company_handle # values[1]}

\* the one-piece string of a text
RECURSIVE TextString(_)
TextString(t) == IF Len(t) = 0 THEN "" ELSE Head(t) \o TextString(Tail(t))

-----------------------------------------------------------------------------
(* The rows of the store *)

TextJob == <<"j", "o", "b">>
TextTest == <<"T", "e", "s", "t">>

\* the companies commonBeforeAll creates (two of the three)
Company1 ==
  [handle |-> Str(<<"c", "1">>), name |-> Str(<<"C", "1">>),
   description |-> Str(<<"D", "1">>), num_employees |-> Num(1),
   logo_url |-> Str(<<"l", "1">>)]

Company2 ==
  [handle |-> Str(<<"c", "2">>), name |-> Str(<<"C", "2">>),
   description |-> Str(<<"D", "2">>), num_employees |-> Num(2),
   logo_url |-> Str(<<"l", "2">>)]

\* jobs as commonBeforeAll creates them: equity 0, above 0 and null
FixtureJobs ==
  {[id |-> Num(1), title |-> Str(TextJob), salary |-> Num(1),
    equity |-> Num(0), company_handle |-> Str(<<"c", "1">>)],
   [id |-> Num(2), title |-> Str(TextTest), salary |-> Num(2),
    equity |-> Num(1), company_handle |-> Str(<<"c", "1">>)],
   [id |-> Num(3), title |-> Str(TextTest), salary |-> Num(2),
    equity |-> Null, company_handle |-> Str(<<"c", "2">>)]}

\* the store once commonBeforeAll has emptied the tables and created the
\* companies
Init ==
  /\ jobs = {}
  /\ companies = {Company1, Company2}
  /\ nextId = 1
  /\ creating = <<>>
  /\ last = [op |-> "none"]

\* the store with the companies and any of the jobs of the fixture left
InitFixture ==
  /\ jobs \in SUBSET FixtureJobs
  /\ companies = {Company1, Company2}
  /\ nextId = Cardinality(FixtureJobs) + 1
  /\ creating = <<>>
  /\ last = [op |-> "none"]

-----------------------------------------------------------------------------
(* Calls.  `last` holds the call being answered: the values a call builds  *)
(* are request-scoped, handed to the caller and then dropped.              *)

Idle == last.op = "none"

\* the caller is done with the outcome of the call
Discard ==
  /\ ~Idle
  /\ last' = [op |-> "none"]
  /\ UNCHANGED <<jobs, companies, nextId, creating>>

-----------------------------------------------------------------------------
(* The builders called on their own: they read and change no state *)

CallSqlForPartialUpdate ==
  \E dataToUpdate \in UpdateObjects, jsToSql \in Tables :
    /\ Idle
    /\ last' = [op |-> "sqlForPartialUpdate",
                args |-> <<dataToUpdate, jsToSql>>,
                ret |-> sqlForPartialUpdate(dataToUpdate, jsToSql)]
    /\ UNCHANGED <<jobs, companies, nextId, creating>>

CallJobBuild ==
  \E queryString \in JobFilters :
    /\ Idle
    /\ last' = [op |-> "Job.buildFindAllSQLWithQueryString",
                args |-> <<queryString>>,
                ret |-> Return(JobBuildFindAllSQL(queryString))]
    /\ UNCHANGED <<jobs, companies, nextId, creating>>

CallCompanyBuild ==
  \E queryString \in CompanyFilters :
    /\ Idle
    /\ last' = [op |-> "Company.buildFindAllSQLWithQueryString",
                args |-> <<queryString>>,
                ret |-> Return(CompanyBuildFindAllSQL(queryString))]
    /\ UNCHANGED <<jobs, companies, nextId, creating>>

-----------------------------------------------------------------------------
(* Reading the store: findAll, and the routes in front of it *)

JobFindAll ==
  \E queryString \in JobFilters :
    LET built == JobBuildFindAllSQL(queryString)
        jobsRes == dbSelect(built.sql, built.values, jobs, JobColumns,
                            [r \in jobs |-> JobRowOut(r)])
    IN /\ Idle
       /\ \E ret \in IF jobsRes.error # "" THEN {DbError(jobsRes.error)}
                     ELSE {Return(rows) : rows \in jobsRes.results} :
            last' = [op |-> "Job.findAll", args |-> <<queryString>>,
                     queries |-> <<built>>, ret |-> ret]
       /\ UNCHANGED <<jobs, companies, nextId, creating>>

CompanyFindAll ==
  \E queryString \in CompanyFilters :
    LET built == CompanyBuildFindAllSQL(queryString)
        companiesRes == dbSelect(built.sql, built.values, companies,
                                 CompanyColumns,
                                 [r \in companies |-> CompanyRowOut(r)])
    IN /\ Idle
       /\ \E ret \in IF companiesRes.error # "" THEN
                       {DbError(companiesRes.error)}
                     ELSE {Return(rows) : rows \in companiesRes.results} :
            last' = [op |-> "Company.findAll", args |-> <<queryString>>,
                     queries |-> <<built>>, ret |-> ret]
       /\ UNCHANGED <<jobs, companies, nextId, creating>>

\* a slip: only the first key is checked
validateQueryString_FirstKeyOnly(queryString, vocabulary) ==
  LET keys == ForInKeys(queryString)
  IN IF Len(keys) = 0 \/ keys[1] \in vocabulary THEN Return(queryString)
     ELSE Throw("BadRequestError",
                "Invalid query string parameter: " \o keys[1])

\* the check of the query string in front of findAll: the first key that is
\* not in the vocabulary is a BadRequestError that names it
validateQueryString(queryString, vocabulary) ==
  LET keys == ForInKeys(queryString)
      unknown == {i \in 1..Len(keys) : keys[i] \notin vocabulary}
  IN IF unknown = {} THEN Return(queryString)
     ELSE Throw("BadRequestError",
                "Invalid query string parameter: "
                  \o keys[CHOOSE i \in unknown : \A j \in unknown : i <= j])

\* GET /jobs?...: req.query is an object, empty when there is no query
GetJobs ==
  \E queryString \in JobFilters \ {Undefined} :
    LET checked == validateQueryString(queryString, JobVocabulary)
        built == JobBuildFindAllSQL(queryString)
        jobsRes == dbSelect(built.sql, built.values, jobs, JobColumns,
                            [r \in jobs |-> JobRowOut(r)])
    IN /\ Idle
       /\ IF checked.threw THEN
            last' = [op |-> "GET /jobs", args |-> <<queryString>>,
                     queries |-> <<>>, ret |-> checked]
          ELSE
            \E ret \in IF jobsRes.error # "" THEN {DbError(jobsRes.error)}
                       ELSE {Return(rows) : rows \in jobsRes.results} :
              last' = [op |-> "GET /jobs", args |-> <<queryString>>,
                       queries |-> <<built>>, ret |-> ret]
       /\ UNCHANGED <<jobs, companies, nextId, creating>>

\* GET /companies?...
GetCompanies ==
  \E queryString \in CompanyFilters \ {Undefined} :
    LET checked == validateQueryString(queryString, CompanyVocabulary)
        built == CompanyBuildFindAllSQL(queryString)
        companiesRes == dbSelect(built.sql, built.values, companies,
                                 CompanyColumns,
                                 [r \in companies |-> CompanyRowOut(r)])
    IN /\ Idle
       /\ IF checked.threw THEN
            last' = [op |-> "GET /companies", args |-> <<queryString>>,
                     queries |-> <<>>, ret |-> checked]
          ELSE
            \E ret \in IF companiesRes.error # "" THEN
                         {DbError(companiesRes.error)}
                       ELSE {Return(rows) : rows \in companiesRes.results} :
              last' = [op |-> "GET /companies", args |-> <<queryString>>,
                       queries |-> <<built>>, ret |-> ret]
       /\ UNCHANGED <<jobs, companies, nextId, creating>>

NextQueries ==
  \/ JobFindAll
  \/ CompanyFindAll
  \/ GetJobs
  \/ GetCompanies
  \/ Discard

SpecQueries == InitFixture /\ [][NextQueries]_vars

-----------------------------------------------------------------------------
(* Changing the store *)

\* the largest number of jobs ever created
MaxJobs == 2

JobIds == {Num(i) : i \in 1..(MaxJobs + 1)}

NewJobs ==
  [title : {Str(TextJob), Str(TextTest)}, salary : {Num(1)},
   equity : {Num(1)},
   companyHandle : {Str(<<"c", "1">>), Str(<<"n", "o">>)}]

JobUpdateKeys == {"title", "salary", "equity"}

JobUpdateVals ==
  [k \in JobUpdateKeys |->
     IF k = "title" THEN {Str(TextTest)}
     ELSE IF k = "salary" THEN {Num(2)}
     ELSE {Null}]

JobUpdates == Objects(JobUpdateKeys, JobUpdateVals, MaxKeys)

CompanyHandles == {Str(<<"c", "1">>), Str(<<"n", "o">>)}

CompanyUpdateKeys == {"name", "numEmployees"}

\* the name the company has already, and a new number of employees
CompanyUpdateVals ==
  [k \in CompanyUpdateKeys |->
     IF k = "name" THEN {Str(<<"C", "1">>)} ELSE {Num(5)}]

CompanyUpdates == Objects(CompanyUpdateKeys, CompanyUpdateVals, MaxKeys)

JobInsertSql ==
  <<"INSERT INTO jobs\n           (title, salary, equity, company_handle)\n           VALUES (",
    "$1", ", ", "$2", ", ", "$3", ", ", "$4",
    ")\n           RETURNING id, title, salary, equity, company_handle AS \"companyHandle\"">>

JobCreate ==
  \E data \in NewJobs :
    LET values == <<data.title, data.salary, data.equity,
                    data.companyHandle>>
        result == dbInsertJob(values, jobs, companies, nextId)
    IN /\ Idle
       /\ nextId <= MaxJobs
       /\ jobs' = result.rows
       /\ nextId' = nextId + 1
       /\ last' = [op |-> "Job.create", args |-> <<data>>,
                   queries |-> <<[sql |-> JobInsertSql, values |-> values]>>,
                   ret |-> IF result.error # "" THEN DbError(result.error)
                           ELSE Return(JobRowOut(
                                  CHOOSE r \in result.returned : TRUE))]
       /\ UNCHANGED <<companies, creating>>

JobGetSql ==
  <<"SELECT id,\n              title, \n              salary, \n              equity,\n              company_handle AS \"companyHandle\"\n           FROM jobs\n           WHERE id = ",
    "$1">>

JobGet ==
  \E id \in JobIds :
    LET found == dbSelectByKey(<<id>>, jobs, "id")
    IN /\ Idle
       /\ last' = [op |-> "Job.get", args |-> <<id>>,
                   queries |-> <<[sql |-> JobGetSql, values |-> <<id>>]>>,
                   ret |-> IF found = {}
                           THEN Throw("NotFoundError",
                                      "No job: " \o ToString(id.num))
                           ELSE Return(JobRowOut(CHOOSE r \in found : TRUE))]
       /\ UNCHANGED <<jobs, companies, nextId, creating>>

JobUpdateHead == "UPDATE jobs \n                      SET "
JobUpdateWhere == " \n                      WHERE id = "
JobUpdateReturning ==
  " \n                      RETURNING id, \n                                title, \n                                salary, \n                                equity,\n                                company_handle AS \"companyHandle\""

\* a slip: the id takes the number of the last assignment
JobUpdate_KeyAtLen ==
  \E id \in JobIds, data \in JobUpdates :
    LET built == sqlForPartialUpdate(data, Obj(<<>>))
        idIdx == Placeholder(Len(built.value.values))
        querySql == <<JobUpdateHead>> \o built.value.setCols
                      \o <<JobUpdateWhere, idIdx, JobUpdateReturning>>
        values == Append(built.value.values, id)
        result == dbUpdate(querySql, values, jobs, JobColumns, "id")
    IN /\ Idle
       /\ IF built.threw THEN
            /\ last' = [op |-> "Job.update", args |-> <<id, data>>,
                        queries |-> <<>>, ret |-> built]
            /\ UNCHANGED jobs
          ELSE
            /\ jobs' = result.rows
            /\ last' = [op |-> "Job.update", args |-> <<id, data>>,
                        queries |-> <<[sql |-> querySql, values |-> values]>>,
                        ret |-> IF result.error # ""
                                  THEN DbError(result.error)
                                ELSE IF result.returned = {}
                                  THEN Throw("NotFoundError",
                                             "No job: " \o ToString(id.num))
                                ELSE Return(JobRowOut(
                                       CHOOSE r \in result.returned : TRUE))]
       /\ UNCHANGED <<companies, nextId, creating>>

JobUpdate ==
  \E id \in JobIds, data \in JobUpdates :
    LET built == sqlForPartialUpdate(data, Obj(<<>>))
        idIdx == Placeholder(Len(built.value.values) + 1)
        querySql == <<JobUpdateHead>> \o built.value.setCols
                      \o <<JobUpdateWhere, idIdx, JobUpdateReturning>>
        values == Append(built.value.values, id)
        result == dbUpdate(querySql, values, jobs, JobColumns, "id")
    IN /\ Idle
       /\ IF built.threw THEN
            /\ last' = [op |-> "Job.update", args |-> <<id, data>>,
                        queries |-> <<>>, ret |-> built]
            /\ UNCHANGED jobs
          ELSE
            /\ jobs' = result.rows
            /\ last' = [op |-> "Job.update", args |-> <<id, data>>,
                        queries |-> <<[sql |-> querySql, values |-> values]>>,
                        ret |-> IF result.error # ""
                                  THEN DbError(result.error)
                                ELSE IF result.returned = {}
                                  THEN Throw("NotFoundError",
                                             "No job: " \o ToString(id.num))
                                ELSE Return(JobRowOut(
                                       CHOOSE r \in result.returned : TRUE))]
       /\ UNCHANGED <<companies, nextId, creating>>

JobDeleteSql ==
  <<"DELETE\n           FROM jobs\n           WHERE id = ", "$1",
    "\n           RETURNING id">>


\* a slip: the outcome of the DELETE is not looked at
JobRemove_NoCheck ==
  \E id \in JobIds :
    LET result == dbDelete(<<id>>, jobs, "id")
    IN /\ Idle
       /\ jobs' = result.rows
       /\ last' = [op |-> "Job.remove", args |-> <<id>>,
                   queries |-> <<[sql |-> JobDeleteSql, values |-> <<id>>]>>,
                   ret |-> Return(Undefined)]
       /\ UNCHANGED <<companies, nextId, creating>>

JobRemove ==
  \E id \in JobIds :
    LET result == dbDelete(<<id>>, jobs, "id")
    IN /\ Idle
       /\ jobs' = result.rows
       /\ last' = [op |-> "Job.remove", args |-> <<id>>,
                   queries |-> <<[sql |-> JobDeleteSql, values |-> <<id>>]>>,
                   ret |-> IF result.returned = {}
                           THEN Throw("NotFoundError",
                                      "No job: " \o ToString(id.num))
                           ELSE Return(Undefined)]
       /\ UNCHANGED <<companies, nextId, creating>>

\* the translation table Company.update passes
CompanyJsToSql ==
  Obj(<<[key |-> "numEmployees", val |-> Str("num_employees")],
        [key |-> "logoUrl", val |-> Str("logo_url")]>>)

CompanyUpdateHead == "UPDATE companies \n                      SET "
CompanyUpdateWhere == " \n                      WHERE handle = "
CompanyUpdateReturning ==
  " \n                      RETURNING handle, \n                                name, \n                                description, \n                                num_employees AS \"numEmployees\", \n                                logo_url AS \"logoUrl\""

CompanyUpdate ==
  \E handle \in CompanyHandles, data \in CompanyUpdates :
    LET built == sqlForPartialUpdate(data, CompanyJsToSql)
        handleVarIdx == Placeholder(Len(built.value.values) + 1)
        querySql == <<CompanyUpdateHead>> \o built.value.setCols
                      \o <<CompanyUpdateWhere, handleVarIdx,
                           CompanyUpdateReturning>>
        values == Append(built.value.values, handle)
        result == dbUpdate(querySql, values, companies, CompanyColumns,
                           "handle")
    IN /\ Idle
       /\ IF built.threw THEN
            /\ last' = [op |-> "Company.update", args |-> <<handle, data>>,
                        queries |-> <<>>, ret |-> built]
            /\ UNCHANGED companies
          ELSE
            /\ companies' = result.rows
            /\ last' = [op |-> "Company.update", args |-> <<handle, data>>,
                        queries |-> <<[sql |-> querySql, values |-> values]>>,
                        ret |-> IF result.error # ""
                                  THEN DbError(result.error)
                                ELSE IF result.returned = {}
                                  THEN Throw("NotFoundError",
                                             "No company: "
                                               \o TextString(handle.str))
                                ELSE Return(CompanyRowOut(
                                       CHOOSE r \in result.returned : TRUE))]
       /\ UNCHANGED <<jobs, nextId, creating>>

\* the largest number of Company.create calls that have made their
\* duplicate check and not yet their INSERT
MaxCreating == 2

\* the company Company.create is called with: c1 as commonBeforeAll creates
\* it, a duplicate while c1 is stored and a new company once it is removed
NewCompanies ==
  {[handle |-> Str(<<"c", "1">>), name |-> Str(<<"C", "1">>),
    description |-> Str(<<"D", "1">>), numEmployees |-> Num(1),
    logoUrl |-> Str(<<"l", "1">>)]}

CompanyCheckSql ==
  <<"SELECT handle\n           FROM companies\n           WHERE handle = ",
    "$1">>

CompanyInsertSql ==
  <<"INSERT INTO companies\n           (handle, name, description, num_employees, logo_url)\n           VALUES (",
    "$1", ", ", "$2", ", ", "$3", ", ", "$4", ", ", "$5",
    ")\n           RETURNING handle, name, description, num_employees AS \"numEmployees\", logo_url AS \"logoUrl\"">>

\* Company.create up to its second await: the duplicate check.  The call
\* ends here when the handle is stored; otherwise it goes on to its INSERT
\* in a later step, and other calls can run in between.
CompanyCreate ==
  \E data \in NewCompanies :
    LET found == dbSelectByKey(<<data.handle>>, companies, "handle")
        duplicateCheck == [sql |-> CompanyCheckSql, values |-> <<data.handle>>]
    IN /\ Idle
       /\ IF found # {} THEN
            /\ last' = [op |-> "Company.create", args |-> <<data>>,
                        queries |-> <<duplicateCheck>>,
                        ret |-> Throw("BadRequestError",
                                      "Duplicate company: "
                                        \o TextString(data.handle.str))]
            /\ UNCHANGED creating
          ELSE
            /\ Len(creating) < MaxCreating
            /\ creating' = Append(creating, data)
            /\ UNCHANGED last
       /\ UNCHANGED <<jobs, companies, nextId>>

\* Company.create from its second await on: the INSERT and the return
CompanyCreateInsert ==
  \E i \in 1..Len(creating) :
    LET data == creating[i]
        values == <<data.handle, data.name, data.description,
                    data.numEmployees, data.logoUrl>>
        result == dbInsertCompany(values, companies)
    IN /\ Idle
       /\ companies' = result.rows
       /\ creating' = SubSeq(creating, 1, i - 1)
                        \o SubSeq(creating, i + 1, Len(creating))
       /\ last' = [op |-> "Company.create", args |-> <<data>>,
                   queries |->
                     <<[sql |-> CompanyCheckSql, values |-> <<data.handle>>],
                       [sql |-> CompanyInsertSql, values |-> values]>>,
                   ret |-> IF result.error # "" THEN DbError(result.error)
                           ELSE Return(CompanyRowOut(
                                  CHOOSE r \in result.returned : TRUE))]
       /\ UNCHANGED <<jobs, nextId>>

CompanyDeleteSql ==
  <<"DELETE\n           FROM companies\n           WHERE handle = ", "$1",
    "\n           RETURNING handle">>

CompanyRemove ==
  \E handle \in CompanyHandles :
    LET result == dbDelete(<<handle>>, companies, "handle")
    IN /\ Idle
       /\ companies' = result.rows
       /\ jobs' = dbCascadeJobs(<<handle>>, jobs)
       /\ last' = [op |-> "Company.remove", args |-> <<handle>>,
                   queries |-> <<[sql |-> CompanyDeleteSql,
                                  values |-> <<handle>>]>>,
                   ret |-> IF result.returned = {}
                           THEN Throw("NotFoundError",
                                      "No company: "
                                        \o TextString(handle.str))
                           ELSE Return(Undefined)]
       /\ UNCHANGED <<nextId, creating>>

Next ==
  \/ JobCreate
  \/ JobGet
  \/ JobUpdate
  \/ JobRemove
  \/ CompanyCreate
  \/ CompanyCreateInsert
  \/ CompanyUpdate
  \/ CompanyRemove
  \/ Discard

Spec == Init /\ [][Next]_vars

NextBuilders ==
  \/ CallSqlForPartialUpdate
  \/ CallJobBuild
  \/ CallCompanyBuild
  \/ Discard

SpecBuilders == Init /\ [][NextBuilders]_vars

-----------------------------------------------------------------------------
(* Reading a statement back *)

\* the placeholders of a statement, in the order they occur
Placeholders(sql) == SelectSeq(sql, IsPlaceholder)

\* how often a piece occurs in a statement
Count(sql, piece) == Cardinality({p \in 1..Len(sql) : sql[p] = piece})

Connectors == {" WHERE ", " AND "}

\* the filter key whose predicate starts with this piece
JobPredicateKey(piece) ==
  IF piece \in {" name ILIKE '%' || ", " title ILIKE '%' || "} THEN "title"
  ELSE IF piece = " salary >= " THEN "minSalary"
  ELSE IF piece = " equity > 0" THEN "hasEquity"
  ELSE "none"

CompanyPredicateKey(piece) ==
  IF piece = " name ILIKE '%' || " THEN "name"
  ELSE IF piece = " num_employees >= " THEN "minEmployees"
  ELSE IF piece = " num_employees <= " THEN "maxEmployees"
  ELSE "none"

\* every piece of statement text the two builders can write themselves
BuilderPieces ==
  {JobBaseSql, CompanyBaseSql, " WHERE ", " AND ", " ORDER BY title",
   " ORDER BY name", " name ILIKE '%' || ", " title ILIKE '%' || ",
   " || '%'", " salary >= ", " equity > 0", " num_employees >= ",
   " num_employees <= "}

OnlyKeysOf(queryString, vocabulary) ==
  \A i \in 1..Len(ForInKeys(queryString)) :
    ForInKeys(queryString)[i] \in vocabulary

\* the object without the property `key`
Without(o, key) == Obj(SelectSeq(o.obj, LAMBDA e : e.key # key))

\* what the column of a key can be: the key, or what the table holds for it
ColumnCandidates(jsToSql, key) ==
  IF GetProp(jsToSql, key) = Undefined THEN {key}
  ELSE {key, TemplateString(GetProp(jsToSql, key))}

CalledPartialUpdate == last.op = "sqlForPartialUpdate"
CalledJobBuild == last.op = "Job.buildFindAllSQLWithQueryString"
CalledCompanyBuild == last.op = "Company.buildFindAllSQLWithQueryString"

-----------------------------------------------------------------------------
(* Claims about sqlForPartialUpdate *)

\* C1: for non-empty data and any table, values has one element per key of
\* data, setCols splits on ", " into one clause per key, the i-th clause is
\* "<column>"=$i with <column> the i-th key or what the table holds for the
\* i-th key, and values[i] is the value data holds for the i-th key.
C1_ClausesAndValuesAligned ==
  (CalledPartialUpdate /\ Len(last.args[1].obj) > 0) =>
    LET data == last.args[1]
        jsToSql == last.args[2]
        keys == ObjectKeys(data)
    IN /\ ~last.ret.threw
       /\ LET values == last.ret.value.values
              clauses == Split(last.ret.value.setCols, ", ")
          IN /\ Len(values) = Len(keys)
             /\ Len(clauses) = Len(keys)
             /\ \A i \in 1..Len(keys) :
                  /\ Len(clauses[i]) = 4
                  /\ clauses[i][1] = "\""
                  /\ clauses[i][2] \in ColumnCandidates(jsToSql, keys[i])
                  /\ clauses[i][3] = "\"="
                  /\ clauses[i][4] = Placeholder(i)
                  /\ values[i] = OwnProp(data, keys[i])

\* C1 witness: a call with three keys, two of them translated, has returned
C1_Witness ==
  /\ CalledPartialUpdate
  /\ Len(last.args[1].obj) = 3
  /\ Len(last.args[2].obj) = 2
  /\ ~last.ret.threw
  /\ Len(last.ret.value.values) = 3

\* C3 as stated: the column of every key is the table's entry for the key
\* when the table has one, whatever its value, and the key itself when it
\* has none.
C3_TranslationPrecedence ==
  (CalledPartialUpdate /\ ~last.ret.threw) =>
    LET data == last.args[1]
        jsToSql == last.args[2]
        keys == ObjectKeys(data)
        clauses == Split(last.ret.value.setCols, ", ")
    IN \A i \in 1..Len(keys) :
         clauses[i][2] = IF HasOwn(jsToSql, keys[i])
                         THEN OwnProp(jsToSql, keys[i]).str
                         ELSE keys[i]

-----------------------------------------------------------------------------
(* Claims about the filter builders *)

\* the keys of a query string that bind a value, in iteration order
JobBoundKeys(queryString) ==
  SelectSeq(ForInKeys(queryString), LAMBDA k : k # "hasEquity")

\* the positions of the placeholders of a statement, in order
PlaceholderPositions(sql) ==
  LET P == {p \in 1..Len(sql) : IsPlaceholder(sql[p])}
  IN [k \in 1..Cardinality(P) |->
        CHOOSE p \in P : Cardinality({r \in P : r < p}) = k - 1]

\* the statement has n placeholders, $1..$n in this order, and the k-th
\* one sits in the predicate of bound[k], whose value is values[k]
BindsInOrder(built, queryString, bound, predicateKey) ==
  LET pos == PlaceholderPositions(built.sql)
  IN /\ Len(pos) = Len(built.values)
     /\ Len(pos) = Len(bound)
     /\ \A k \in 1..Len(pos) :
          /\ built.sql[pos[k]] = Placeholder(k)
          /\ predicateKey[pos[k] - 1] = bound[k]
          /\ built.values[k] = OwnProp(queryString, bound[k])

\* C4: for a query string with recognized keys only, in any order, the
\* statement holds as many placeholders as there are values, they are
\* $1..$n in increasing order with no gap and no reuse, and the k-th value
\* is the value of the key whose predicate holds $k.
C4_PlaceholdersMatchValues ==
  /\ (CalledJobBuild /\ OnlyKeysOf(last.args[1], JobVocabulary)) =>
       BindsInOrder(last.ret.value, last.args[1],
                    JobBoundKeys(last.args[1]),
                    [i \in DOMAIN last.ret.value.sql |->
                       JobPredicateKey(last.ret.value.sql[i])])
  /\ (CalledCompanyBuild /\ OnlyKeysOf(last.args[1], CompanyVocabulary)) =>
       BindsInOrder(last.ret.value, last.args[1],
                    ForInKeys(last.args[1]),
                    [i \in DOMAIN last.ret.value.sql |->
                       CompanyPredicateKey(last.ret.value.sql[i])])

\* C4 witness: the job builder has answered { hasEquity, minSalary, title }
\* in an order that puts the literal predicate first
C4_Witness ==
  /\ CalledJobBuild
  /\ ForInKeys(last.args[1]) = <<"hasEquity", "minSalary", "title">>
  /\ Len(last.ret.value.values) = 2

\* C5: the statement is made of the builders' own pieces and placeholders
\* only, and any query string with the same key sequence, whatever its
\* values, gets the identical statement.
C5_ValuesNeverInStatement ==
  /\ CalledJobBuild =>
       /\ \A p \in 1..Len(last.ret.value.sql) :
            last.ret.value.sql[p] \in BuilderPieces
              \/ IsPlaceholder(last.ret.value.sql[p])
       /\ \A other \in JobFilters :
            ForInKeys(other) = ForInKeys(last.args[1]) =>
              JobBuildFindAllSQL(other).sql = last.ret.value.sql
  /\ CalledCompanyBuild =>
       /\ \A p \in 1..Len(last.ret.value.sql) :
            last.ret.value.sql[p] \in BuilderPieces
              \/ IsPlaceholder(last.ret.value.sql[p])
       /\ \A other \in CompanyFilters :
            ForInKeys(other) = ForInKeys(last.args[1]) =>
              CompanyBuildFindAllSQL(other).sql = last.ret.value.sql

\* C5 witness: the job builder has answered a query string with two bound
\* values, and another query string has the same keys and other values
C5_Witness ==
  /\ CalledJobBuild
  /\ Len(last.ret.value.values) = 2
  /\ \E other \in JobFilters :
       /\ ForInKeys(other) = ForInKeys(last.args[1])
       /\ JobBuildFindAllSQL(other).values # last.ret.value.values

\* C7: wherever hasEquity sits, the statement holds the piece " equity > 0"
\* once, behind a connector and with no placeholder behind it; the values
\* and the placeholders are those of the query string without hasEquity;
\* and title, minSalary and hasEquity together, in any order, give three
\* predicates and two values bound by $1 and $2.
C7_EquityIsLiteral ==
  (CalledJobBuild /\ HasOwn(last.args[1], "hasEquity")) =>
    LET queryString == last.args[1]
        sql == last.ret.value.sql
        values == last.ret.value.values
        rest == JobBuildFindAllSQL(Without(queryString, "hasEquity"))
    IN /\ Count(sql, " equity > 0") = 1
       /\ \A p \in 1..Len(sql) :
            sql[p] = " equity > 0" =>
              /\ sql[p - 1] \in Connectors
              /\ sql[p + 1] \in Connectors \cup {" ORDER BY title"}
       /\ values = rest.values
       /\ Placeholders(sql) = Placeholders(rest.sql)
       /\ Len(values) = Len(ForInKeys(queryString)) - 1
       /\ {ForInKeys(queryString)[i] : i \in 1..Len(ForInKeys(queryString))}
            = JobVocabulary =>
            /\ Count(sql, " WHERE ") + Count(sql, " AND ") = 3
            /\ Count(sql, " WHERE ") = 1
            /\ Len(values) = 2
            /\ Placeholders(sql) = <<Placeholder(1), Placeholder(2)>>

\* C7 witness: hasEquity sat between title and minSalary
C7_Witness ==
  /\ CalledJobBuild
  /\ ForInKeys(last.args[1]) = <<"title", "hasEquity", "minSalary">>
  /\ Len(last.ret.value.values) = 2

\* C9 as stated: the predicate the job builder writes for title is on the
\* title column of jobs, and the result is ordered by title.
C9_TitlePredicateOnTitleColumn ==
  (CalledJobBuild /\ HasOwn(last.args[1], "title")) =>
    LET sql == last.ret.value.sql
    IN /\ Count(sql, " title ILIKE '%' || ") = 1
       /\ Count(sql, " name ILIKE '%' || ") = 0
       /\ sql[Len(sql)] = " ORDER BY title"

\* C10 as stated: a query string whose hasEquity is false gets a statement
\* with no restriction on equity.
C10_EquityOnlyIfTrue ==
  (CalledJobBuild /\ HasOwn(last.args[1], "hasEquity")
     /\ OwnProp(last.args[1], "hasEquity") = Bool(FALSE)) =>
    Count(last.ret.value.sql, " equity > 0") = 0

-----------------------------------------------------------------------------
(* Claims about the routes and findAll, on the store of the fixture *)

\* C6: a GET whose query string holds a key outside the vocabulary of the
\* resource, in any position and with any other keys, ends in a
\* BadRequestError whose message names a key of the query string that is
\* outside the vocabulary, and no statement is built or run for it.
C6_UnrecognizedKeyRejected ==
  /\ (last.op = "GET /jobs" /\ ~OnlyKeysOf(last.args[1], JobVocabulary)) =>
       /\ last.ret.threw
       /\ last.ret.error.name = "BadRequestError"
       /\ \E i \in 1..Len(ForInKeys(last.args[1])) :
            /\ ForInKeys(last.args[1])[i] \notin JobVocabulary
            /\ last.ret.error.message =
                 "Invalid query string parameter: "
                   \o ForInKeys(last.args[1])[i]
       /\ last.queries = <<>>
  /\ (last.op = "GET /companies"
        /\ ~OnlyKeysOf(last.args[1], CompanyVocabulary)) =>
       /\ last.ret.threw
       /\ last.ret.error.name = "BadRequestError"
       /\ \E i \in 1..Len(ForInKeys(last.args[1])) :
            /\ ForInKeys(last.args[1])[i] \notin CompanyVocabulary
            /\ last.ret.error.message =
                 "Invalid query string parameter: "
                   \o ForInKeys(last.args[1])[i]
       /\ last.queries = <<>>

\* C6 witness: GET /jobs?title=..&fakeQueryField=.. has been refused
C6_Witness ==
  /\ last.op = "GET /jobs"
  /\ ForInKeys(last.args[1]) = <<"title", "fakeQueryField">>
  /\ last.ret.threw
  /\ last.ret.error.message = "Invalid query string parameter: fakeQueryField"

\* C8: findAll with an empty or absent query string runs the base statement
\* followed by the ORDER BY alone, with no WHERE and no values, and returns
\* every row of the table.
C8_EmptyFilterSelectsAll ==
  /\ (last.op = "Job.findAll" /\ Len(ForInKeys(last.args[1])) = 0) =>
       /\ last.queries =
            <<[sql |-> <<JobBaseSql, " ORDER BY title">>, values |-> <<>>]>>
       /\ ~last.ret.threw
       /\ Len(last.ret.value) = Cardinality(jobs)
       /\ {last.ret.value[i] : i \in 1..Len(last.ret.value)}
            = {JobRowOut(r) : r \in jobs}
  /\ (last.op = "Company.findAll" /\ Len(ForInKeys(last.args[1])) = 0) =>
       /\ last.queries =
            <<[sql |-> <<CompanyBaseSql, " ORDER BY name">>,
               values |-> <<>>]>>
       /\ ~last.ret.threw
       /\ Len(last.ret.value) = Cardinality(companies)
       /\ {last.ret.value[i] : i \in 1..Len(last.ret.value)}
            = {CompanyRowOut(r) : r \in companies}

\* C8 witness: Job.findAll() with no argument has returned the three jobs
C8_Witness ==
  /\ last.op = "Job.findAll"
  /\ last.args[1] = Undefined
  /\ jobs = FixtureJobs
  /\ ~last.ret.threw
  /\ Len(last.ret.value) = 3

-----------------------------------------------------------------------------
(* Claims about the operations that change the store *)

\* C2: sqlForPartialUpdate with no data throws BadRequestError "No data"
\* whatever the translation table, and a step in which Job.update or
\* Company.update is called with no data ends in that error, runs no query
\* and leaves the store as it was.
C2_NoDataRejected ==
  /\ \A jsToSql \in Tables :
       sqlForPartialUpdate(Obj(<<>>), jsToSql)
         = Throw("BadRequestError", "No data")
  /\ [][(/\ Idle
         /\ last'.op \in {"Job.update", "Company.update"}
         /\ Len(last'.args[2].obj) = 0) =>
          /\ last'.ret = Throw("BadRequestError", "No data")
          /\ last'.queries = <<>>
          /\ UNCHANGED <<jobs, companies, nextId, creating>>]_vars

\* C2 witness: Job.update(1, {}) has been refused while job 1 was stored
C2_Witness ==
  /\ last.op = "Job.update"
  /\ last.args = <<Num(1), Obj(<<>>)>>
  /\ last.ret.threw
  /\ \E r \in jobs : r.id = Num(1)

\* C11: a step in which Job.update(id, data) is called with non-empty data
\* on a stored job returns that job with every column named in data set to
\* the value data holds for it (null included) and every other column as it
\* was, stores exactly that row in its place, and leaves every other job,
\* the companies and the id sequence as they were.
C11_UpdateChangesOnlyNamedColumns ==
  [][(/\ Idle
      /\ last'.op = "Job.update"
      /\ Len(last'.args[2].obj) > 0
      /\ \E r \in jobs : r.id = last'.args[1]) =>
       LET id == last'.args[1]
           data == last'.args[2]
           Changed(r) ==
             [c \in JobColumns |->
                IF HasOwn(data, c) THEN OwnProp(data, c) ELSE r[c]]
       IN /\ jobs' = {IF r.id = id THEN Changed(r) ELSE r : r \in jobs}
          /\ last'.ret
               = Return(JobRowOut(Changed(CHOOSE r \in jobs : r.id = id)))
          /\ UNCHANGED <<companies, nextId, creating>>]_vars

\* C11 witness: Job.update(1, { equity: null }) has answered while a second
\* job is stored: job 1 has no equity and the title and salary it was
\* created with, job 2 still has its equity
C11_Witness ==
  /\ last.op = "Job.update"
  /\ last.args = <<Num(1), Obj(<<[key |-> "equity", val |-> Null]>>)>>
  /\ ~last.ret.threw
  /\ last.ret.value.equity = Null
  /\ \E r \in jobs :
       /\ r.id = Num(1)
       /\ r.equity = Null
       /\ r.title = Str(TextJob)
       /\ r.salary = Num(1)
  /\ \E r \in jobs : r.id = Num(2) /\ r.equity = Num(1)

\* the call being answered is Job.get, Job.update with non-empty data or
\* Job.remove, on this id
OnJob(call, id) ==
  /\ call.op \in {"Job.get", "Job.update", "Job.remove"}
  /\ call.args[1] = id
  /\ call.op = "Job.update" => Len(call.args[2].obj) > 0

NoJob(id) == Throw("NotFoundError", "No job: " \o ToString(id.num))

\* C12: a step in which Job.get, Job.update with non-empty data or
\* Job.remove is called with an id no stored job has ends in NotFoundError
\* and leaves the store as it was; and once Job.remove(id) has succeeded,
\* no job with that id is stored ever again and every get or update of it
\* ends in NotFoundError (so, by the first part, does every remove).
C12_MissingJobNotFound ==
  /\ [][\A id \in JobIds :
          (/\ Idle
           /\ OnJob(last', id)
           /\ \A r \in jobs : r.id # id) =>
            /\ last'.ret = NoJob(id)
            /\ UNCHANGED <<jobs, companies, nextId, creating>>]_vars
  /\ \A id \in JobIds :
       []((last.op = "Job.remove" /\ last.args[1] = id /\ ~last.ret.threw) =>
            [](/\ \A r \in jobs : r.id # id
               /\ (OnJob(last, id) /\ last.op # "Job.remove") =>
                    last.ret = NoJob(id)))

\* C12 witness: Job.remove(1) has ended in NotFoundError with job 2 stored
\* and no job 1
C12_Witness ==
  /\ last.op = "Job.remove"
  /\ last.args = <<Num(1)>>
  /\ last.ret = NoJob(Num(1))
  /\ \E r \in jobs : r.id = Num(2)
  /\ \A r \in jobs : r.id # Num(1)

\* C13: when Job.create has been called with a companyHandle no stored
\* company has, the call has ended in NotFoundError and no job with that
\* company handle is stored.
C13_CreateUnknownCompanyNotFound ==
  (/\ last.op = "Job.create"
   /\ \A c \in companies : c.handle # last.args[1].companyHandle) =>
    /\ last.ret.threw
    /\ last.ret.error.name = "NotFoundError"
    /\ \A r \in jobs : r.company_handle # last.args[1].companyHandle

\* C14: when Job.update or Company.update has been called with non-empty
\* data of n keys, the statement it ran holds the placeholders $1..$(n+1)
\* in this order, each once: $1..$n in the n assignments, $(n+1) right
\* after the WHERE on the lookup key; and the values it bound are the n
\* values of data followed by the id or handle.
C14_LookupKeyContinuesSequence ==
  (/\ last.op \in {"Job.update", "Company.update"}
   /\ Len(last.args[2].obj) > 0) =>
    LET n == Len(last.args[2].obj)
        sql == last.queries[1].sql
        values == last.queries[1].values
        w == CHOOSE q \in 1..Len(sql) : sql[q] \in UpdateWherePieces
    IN /\ Len(last.queries) = 1
       /\ Placeholders(sql) = [k \in 1..(n + 1) |-> Placeholder(k)]
       /\ Placeholders(SubSeq(sql, 1, w)) = [k \in 1..n |-> Placeholder(k)]
       /\ sql[w + 1] = Placeholder(n + 1)
       /\ Len(values) = n + 1
       /\ SubSeq(values, 1, n) = ObjectValues(last.args[2])
       /\ values[n + 1] = last.args[1]

\* C14 witness: Company.update("c1", data) with two keys has changed the
\* company through a statement whose handle is bound to $3
C14_Witness ==
  /\ last.op = "Company.update"
  /\ Len(last.args[2].obj) = 2
  /\ ~last.ret.threw
  /\ Placeholders(last.queries[1].sql) = <<"$1", "$2", "$3">>
  /\ last.queries[1].values[3] = Str(<<"c", "1">>)

-----------------------------------------------------------------------------
(* Claims about the shape of the filter statements *)

\* the positions of the connectors of a statement, in order
ConnectorPositions(sql) ==
  LET P == {p \in 1..Len(sql) : sql[p] \in Connectors}
  IN [k \in 1..Cardinality(P) |->
        CHOOSE p \in P : Cardinality({r \in P : r < p}) = k - 1]

\* the statement is the base, then one clause per key in the order of keys,
\* the first after " WHERE " and each later one after " AND ", then the
\* ORDER BY; the k-th clause holds the predicate of keys[k] and no other
ClausesInOrder(sql, keys, base, orderBy, predicateKey) ==
  LET pos == ConnectorPositions(sql)
      n == Len(keys)
      End(k) == IF k = n THEN Len(sql) - 1 ELSE pos[k + 1] - 1
  IN /\ sql[1] = base
     /\ sql[Len(sql)] = orderBy
     /\ Count(sql, orderBy) = 1
     /\ Len(pos) = n
     /\ n = 0 => Len(sql) = 2
     /\ \A k \in 1..n :
          /\ sql[pos[k]] = IF k = 1 THEN " WHERE " ELSE " AND "
          /\ k = 1 => pos[k] = 2
          /\ End(k) > pos[k]
          /\ predicateKey[pos[k] + 1] = keys[k]
          /\ \A p \in (pos[k] + 2)..End(k) : predicateKey[p] = "none"

\* C15: for a query string with recognized keys only, in any order, the
\* statement of either builder is the base statement, one predicate clause
\* per key in the iteration order of the query string, the first introduced
\* by the only WHERE and each later one by AND, and the ORDER BY (title for
\* jobs, name for companies) as its last piece; and whatever the keys, the
\* statement ends with that ORDER BY.
C15_ClausesFollowIterationOrder ==
  /\ CalledJobBuild =>
       LET sql == last.ret.value.sql
       IN /\ sql[Len(sql)] = " ORDER BY title"
          /\ OnlyKeysOf(last.args[1], JobVocabulary) =>
               ClausesInOrder(sql, ForInKeys(last.args[1]), JobBaseSql,
                              " ORDER BY title",
                              [i \in DOMAIN sql |-> JobPredicateKey(sql[i])])
  /\ CalledCompanyBuild =>
       LET sql == last.ret.value.sql
       IN /\ sql[Len(sql)] = " ORDER BY name"
          /\ OnlyKeysOf(last.args[1], CompanyVocabulary) =>
               ClausesInOrder(sql, ForInKeys(last.args[1]), CompanyBaseSql,
                              " ORDER BY name",
                              [i \in DOMAIN sql |->
                                 CompanyPredicateKey(sql[i])])

\* C15 witness: the job builder has answered { minSalary, hasEquity, title }
\* in this order, with the three clauses in this order
C15_Witness ==
  /\ CalledJobBuild
  /\ ForInKeys(last.args[1]) = <<"minSalary", "hasEquity", "title">>
  /\ Count(last.ret.value.sql, " WHERE ") = 1
  /\ Count(last.ret.value.sql, " AND ") = 2
  /\ last.ret.value.sql[3] = " salary >= "
  /\ last.ret.value.sql[6] = " equity > 0"

-----------------------------------------------------------------------------
(* Claims about the meaning of the company filters *)

\* sub occurs in text
Contains(text, sub) ==
  \E i \in 0..(Len(text) - Len(sub)) : SubSeq(text, i + 1, i + Len(sub)) = sub

\* what a company filter key asks of a company
Meets(company, key, value) ==
  IF key = "name" THEN
    Contains(LowerText(company.name.str), LowerText(BindText(value)))
  ELSE IF key = "minEmployees" THEN company.num_employees.num >= value.num
  ELSE company.num_employees.num <= value.num

\* the predicate clause of a company filter key with placeholder $n
CompanyClause(key, n) ==
  IF key = "name" THEN <<" name ILIKE '%' || ", Placeholder(n), " || '%'">>
  ELSE IF key = "minEmployees" THEN <<" num_employees >= ", Placeholder(n)>>
  ELSE <<" num_employees <= ", Placeholder(n)>>

\* C16: when Company.findAll has been called with recognized keys only, the
\* k-th key has the clause name ILIKE '%' || $k || '%', num_employees >= $k
\* or num_employees <= $k according to the key, the statement holds the
\* placeholders $1..$n once each, the k-th bind value is the value of the
\* k-th key, and the call has returned exactly the companies whose name
\* contains the name text whatever the case of letters, that have at least
\* minEmployees and at most maxEmployees employees, each bound included.
\* (The name texts of the model hold letters and digits only.)
C16_CompanyFilterSemantics ==
  (/\ last.op = "Company.findAll"
   /\ IsObj(last.args[1])
   /\ OnlyKeysOf(last.args[1], CompanyVocabulary)) =>
    LET q == last.args[1]
        keys == ObjectKeys(q)
        n == Len(keys)
        sql == last.queries[1].sql
        values == last.queries[1].values
        pos == ConnectorPositions(sql)
        End(k) == IF k = n THEN Len(sql) - 1 ELSE pos[k + 1] - 1
        asked == {c \in companies :
                    \A k \in 1..n : Meets(c, keys[k], OwnProp(q, keys[k]))}
    IN /\ Len(pos) = n
       /\ Len(values) = n
       /\ Placeholders(sql) = [k \in 1..n |-> Placeholder(k)]
       /\ \A k \in 1..n :
            /\ SubSeq(sql, pos[k] + 1, End(k)) = CompanyClause(keys[k], k)
            /\ values[k] = OwnProp(q, keys[k])
       /\ ~last.ret.threw
       /\ Len(last.ret.value) = Cardinality(asked)
       /\ {last.ret.value[i] : i \in 1..Len(last.ret.value)}
            = {CompanyRowOut(c) : c \in asked}

\* C16 witness: Company.findAll({ name: "c", minEmployees: 2,
\* maxEmployees: 2 }) has returned the company C2 and no other
C16_Witness ==
  /\ last.op = "Company.findAll"
  /\ last.args[1] = Obj(<<[key |-> "name", val |-> Str(<<"c">>)],
                          [key |-> "minEmployees", val |-> Num(2)],
                          [key |-> "maxEmployees", val |-> Num(2)]>>)
  /\ ~last.ret.threw
  /\ last.ret.value = <<CompanyRowOut(Company2)>>

====
